---- MODULE Spec2Model ----
(***************************************************************************)
(* Model of src/main.rs of anyhow_playground: five demo functions, each    *)
(* with its own error representation (anyhow::Error, the zero-sized        *)
(* LookupFailure, the enum IdNumberError), and the main function that      *)
(* calls one of them and reports the outcome.                              *)
(***************************************************************************)
EXTENDS Integers, Sequences, FiniteSets, TLC

VARIABLES
    pc,            \* position of the running call
    caller,        \* "none", "main" (fn main) or "api" (a caller of a pub fn)
    demo,          \* the demo function that was called
    key,           \* the key argument of access_map_*
    file1,         \* the file "nonexistent_file" as the file system holds it
    file2,         \* the file "nonexistent_logfile" as the file system holds it
    map,           \* the local table `map` built by the running access_map_*
    data,          \* the local `data` of open_file_1
    openRes,       \* the value of File::open(filename) in open_file_2
    raised,        \* the error value constructed at the failure site
    executed,      \* the steps the running call has executed, in order
    builderEvals,  \* how often the closure given to with_context has run
    result,        \* the value the demo function returned
    stdout,        \* lines printed by println!
    stderr,        \* lines of the error report of a failing main
    exitCode       \* "running", then "success" or "failure" as main returns

vars == <<pc, caller, demo, key, file1, file2, map, data, openRes, raised,
          executed, builderEvals, result, stdout, stderr, exitCode>>

----------------------------------------------------------------------------
(* Bounds *)

MaxKey == 99     \* keys are 0..MaxKey (u32 in the source)
MaxLen == 2      \* longest file content, in characters

Keys == 0 .. MaxKey

(* Characters a file content is made of: two digits, a sign, a line end *)
Chars == {"0", "7", "+", "\n"}

RECURSIVE SeqsUpTo(_)
SeqsUpTo(len) ==
    IF len = 0 THEN {<<>>}
    ELSE LET shorter == SeqsUpTo(len - 1)
         IN  shorter \cup {Append(s, c) : s \in {t \in shorter : Len(t) = len - 1}, c \in Chars}

Contents == SeqsUpTo(MaxLen)

----------------------------------------------------------------------------
(* Program constants *)

MainKey == 41
Divisor == 7

FileName1 == "nonexistent_file"
FileName2 == "nonexistent_logfile"

Demos == {"open_file_1", "open_file_2", "access_map_1", "access_map_2", "access_map_3"}
MapDemos == {"access_map_1", "access_map_2", "access_map_3"}

----------------------------------------------------------------------------
(* Values: Option, Result and the error representations *)

None == [some |-> FALSE, v |-> 0]
Some(x) == [some |-> TRUE, v |-> x]

NoErr == [rep |-> "none", variant |-> "none", payload |-> 0, chain |-> <<>>]

(* std::io::Error and std::num::ParseIntError, by kind *)
IoError(kind) == [rep |-> "io", variant |-> kind, payload |-> 0, chain |-> <<>>]
ParseIntError(kind) == [rep |-> "parse", variant |-> kind, payload |-> 0, chain |-> <<>>]

(* anyhow::Error: a chain of messages, the outermost first *)
Opaque(chain) == [rep |-> "anyhow", variant |-> "none", payload |-> 0, chain |-> chain]

(* pub struct LookupFailure: no fields *)
LookupFailure == [rep |-> "LookupFailure", variant |-> "LookupFailure", payload |-> 0, chain |-> <<>>]

(* pub enum IdNumberError *)
IdLookupFailure == [rep |-> "IdNumberError", variant |-> "LookupFailure", payload |-> 0, chain |-> <<>>]
IdInvalidNumber(x) == [rep |-> "IdNumberError", variant |-> "InvalidNumber", payload |-> x, chain |-> <<>>]

NoResult == [tag |-> "none", val |-> 0, err |-> NoErr]
Ok(x) == [tag |-> "Ok", val |-> x, err |-> NoErr]
Err(e) == [tag |-> "Err", val |-> 0, err |-> e]

(* the unit value () *)
Unit == 0

(* Display of an error value: the #[error(...)] strings and the std texts *)
Display(e) ==
    CASE e.rep = "anyhow" -> e.chain[1]
      [] e.rep = "LookupFailure" -> "key lookup failure"
      [] e.rep = "IdNumberError" /\ e.variant = "LookupFailure" -> "id lookup failure"
      [] e.rep = "IdNumberError" /\ e.variant = "InvalidNumber" ->
             "invalid id number (" \o ToString(e.payload) \o ")"
      [] e.rep = "io" /\ e.variant = "NotFound" -> "No such file or directory (os error 2)"
      [] e.rep = "io" /\ e.variant = "PermissionDenied" -> "Permission denied (os error 13)"
      [] e.rep = "io" /\ e.variant = "InvalidData" -> "stream did not contain valid UTF-8"
      [] e.rep = "parse" /\ e.variant = "Empty" -> "cannot parse integer from empty string"
      [] e.rep = "parse" /\ e.variant = "InvalidDigit" -> "invalid digit found in string"
      [] OTHER -> "?"

(* The conversion `?` applies to an error on its way into anyhow::Result:  *)
(* an anyhow::Error passes as it is, any other error becomes the single     *)
(* link of a new chain.                                                     *)
IntoAnyhow(e) == IF e.rep = "anyhow" THEN e ELSE Opaque(<<Display(e)>>)

(* anyhow!(msg) / bail!(msg): a fresh error holding one message *)
Anyhow(msg) == Opaque(<<msg>>)

(* {:?} of a &str: the text in double quotes *)
DebugStr(s) == "\"" \o s \o "\""

----------------------------------------------------------------------------
(* The file system and the standard library calls on it *)

Files1 == {[kind |-> k, data |-> <<>>] : k \in {"missing", "denied", "binary"}}
              \cup {[kind |-> "text", data |-> d] : d \in Contents}
Files2 == {"missing", "denied", "present"}

(* fs::read_to_string(filename) *)
ReadToString(f) ==
    CASE f.kind = "missing" -> Err(IoError("NotFound"))
      [] f.kind = "denied" -> Err(IoError("PermissionDenied"))
      [] f.kind = "binary" -> Err(IoError("InvalidData"))
      [] OTHER -> Ok(f.data)

(* File::open(filename) *)
FileOpen(f) ==
    CASE f = "missing" -> Err(IoError("NotFound"))
      [] f = "denied" -> Err(IoError("PermissionDenied"))
      [] OTHER -> Ok(Unit)

IsDigit(c) == c \in {"0", "7"}
DigitVal(c) == IF c = "7" THEN 7 ELSE 0

RECURSIVE Decimal(_)
Decimal(s) ==
    IF Len(s) = 0 THEN 0
    ELSE 10 * Decimal(SubSeq(s, 1, Len(s) - 1)) + DigitVal(s[Len(s)])

(* data.parse::<u64>(): no trimming, one leading "+" allowed, digits only. *)
(* Contents of at most MaxLen characters stay far below 2^64.              *)
ParseU64(s) ==
    IF Len(s) = 0 THEN Err(ParseIntError("Empty"))
    ELSE LET digits == IF s[1] = "+" THEN Tail(s) ELSE s
         IN  IF Len(digits) = 0 \/ \E i \in 1 .. Len(digits) : ~IsDigit(digits[i])
             THEN Err(ParseIntError("InvalidDigit"))
             ELSE Ok(Decimal(digits))

----------------------------------------------------------------------------
(* anyhow::Context and the report of a failing main *)

(* with_context as .context(format!(..)) would behave: the message is built *)
(* before the outcome is known                                              *)
WithContextEager(r, msg) ==
    IF r.tag = "Ok" THEN [res |-> r, evals |-> 1]
    ELSE [res |-> Err(Opaque(<<msg>> \o IntoAnyhow(r.err).chain)), evals |-> 1]

(* with_context as .map_err(|_| anyhow!(..)) would behave: the message      *)
(* replaces the underlying failure                                          *)
WithContextReplace(r, msg) ==
    IF r.tag = "Ok" THEN [res |-> r, evals |-> 0]
    ELSE [res |-> Err(Opaque(<<msg>>)), evals |-> 1]

(* r.with_context(|| msg): Ok passes without running the closure; on Err   *)
(* the closure runs once and its message goes in front of the chain.       *)
WithContext(r, msg) ==
    IF r.tag = "Ok" THEN [res |-> r, evals |-> 0]
    ELSE [res |-> Err(Opaque(<<msg>> \o IntoAnyhow(r.err).chain)), evals |-> 1]

RECURSIVE Causes(_, _)
Causes(chain, i) ==
    IF i > Len(chain) THEN <<>>
    ELSE <<"    " \o ToString(i - 2) \o ": " \o chain[i]>> \o Causes(chain, i + 1)

(* What a main returning Err(e) prints: "Error: " and {:?} of the error,   *)
(* line by line.                                                           *)
Render(e) ==
    LET chain == e.chain
    IN  <<"Error: " \o chain[1]>> \o
        (IF Len(chain) = 1 THEN <<>>
         ELSE <<"", "Caused by:">> \o
              (IF Len(chain) = 2 THEN <<"    " \o chain[2]>> ELSE Causes(chain, 2)))

----------------------------------------------------------------------------
(* The lookup demos.  Each returns the value of the call together with the *)
(* table it built, the steps it executed and the error it constructed.     *)

EmptyMap == [k \in {} |-> 0]

Get(m, k) == IF k \in DOMAIN m THEN Some(m[k]) ELSE None

Outcome(r, m, steps, e) == [res |-> r, map |-> m, steps |-> steps, raised |-> e]

(* access_map_1 with the table of access_map_3 *)
NewMap1Filled == (41 :> 76) @@ (42 :> 77)

(* HashMap::<u32, u32>::new() of access_map_1 *)
NewMap1 == EmptyMap

(* HashMap::<u32, u32>::new() of access_map_2 *)
NewMap2 == EmptyMap

(* the two inserts with their values exchanged *)
NewMap3Swapped == (41 :> 77) @@ (42 :> 76)

(* the table of access_map_3 after its two inserts *)
NewMap3 == (41 :> 76) @@ (42 :> 77)

AccessMap1(k) ==
    LET m == NewMap1
        opt == Get(m, k)
    IN  IF ~opt.some
        THEN LET e == Anyhow("key lookup failure")
             IN  Outcome(Err(IntoAnyhow(e)), m, <<"lookup">>, e)
        ELSE LET n == opt.v
             IN  IF n % Divisor # 0
                 THEN LET e == Anyhow("not divisible by 7")
                      IN  Outcome(Err(e), m, <<"lookup", "validate">>, e)
                 ELSE Outcome(Ok(n), m, <<"lookup", "validate">>, NoErr)

(* access_map_2 with unwrap_or_default in place of ok_or(..) *)
AccessMap2Default(k) ==
    LET m == NewMap2
        opt == Get(m, k)
    IN  IF ~opt.some
        THEN Outcome(Ok(0), m, <<"lookup">>, NoErr)
        ELSE Outcome(Ok(opt.v), m, <<"lookup">>, NoErr)

(* access_map_2 with the anyhow! error of access_map_1 *)
AccessMap2Opaque(k) ==
    LET m == NewMap2
        opt == Get(m, k)
    IN  IF ~opt.some
        THEN Outcome(Err(Anyhow("key lookup failure")), m, <<"lookup">>,
                     Anyhow("key lookup failure"))
        ELSE Outcome(Ok(opt.v), m, <<"lookup">>, NoErr)

AccessMap2(k) ==
    LET m == NewMap2
        opt == Get(m, k)
    IN  IF ~opt.some
        THEN Outcome(Err(LookupFailure), m, <<"lookup">>, LookupFailure)
        ELSE Outcome(Ok(opt.v), m, <<"lookup">>, NoErr)

(* access_map_3 with the key, not the value, in InvalidNumber *)
AccessMap3KeyPayload(k) ==
    LET m == NewMap3
        opt == Get(m, k)
    IN  IF ~opt.some
        THEN Outcome(Err(IdLookupFailure), m, <<"lookup">>, IdLookupFailure)
        ELSE LET n == opt.v
             IN  IF n % Divisor = 0
                 THEN Outcome(Ok(n), m, <<"lookup", "validate">>, NoErr)
                 ELSE Outcome(Err(IdInvalidNumber(k)), m, <<"lookup", "validate">>,
                              IdInvalidNumber(k))

(* access_map_3 with the test of the validation inverted *)
AccessMap3Inverted(k) ==
    LET m == NewMap3
        opt == Get(m, k)
    IN  IF ~opt.some
        THEN Outcome(Err(IdLookupFailure), m, <<"lookup">>, IdLookupFailure)
        ELSE LET n == opt.v
             IN  IF n % Divisor # 0
                 THEN Outcome(Ok(n), m, <<"lookup", "validate">>, NoErr)
                 ELSE Outcome(Err(IdInvalidNumber(n)), m, <<"lookup", "validate">>,
                              IdInvalidNumber(n))

AccessMap3(k) ==
    LET m == NewMap3
        opt == Get(m, k)
    IN  IF ~opt.some
        THEN Outcome(Err(IdLookupFailure), m, <<"lookup">>, IdLookupFailure)
        ELSE LET n == opt.v
             IN  IF n % Divisor = 0
                 THEN Outcome(Ok(n), m, <<"lookup", "validate">>, NoErr)
                 ELSE Outcome(Err(IdInvalidNumber(n)), m, <<"lookup", "validate">>,
                              IdInvalidNumber(n))

----------------------------------------------------------------------------
(* State machine *)

Entry(d) ==
    CASE d = "open_file_1" -> "of1_read"
      [] d = "open_file_2" -> "of2_open"
      [] OTHER -> d

Init ==
    /\ pc = "idle"
    /\ caller = "none"
    /\ demo = "none"
    /\ key = 0
    /\ file1 \in Files1
    /\ file2 \in Files2
    /\ map = EmptyMap
    /\ data = <<>>
    /\ openRes = NoResult
    /\ raised = NoErr
    /\ executed = <<>>
    /\ builderEvals = 0
    /\ result = NoResult
    /\ stdout = <<>>
    /\ stderr = <<>>
    /\ exitCode = "running"

Locals == <<map, data, openRes, raised, executed, builderEvals, result>>
Report == <<stdout, stderr, exitCode>>
Env == <<file1, file2>>

(* fn main with the call of demo d uncommented; its lookups pass MainKey *)
MainCall(d) ==
    /\ pc = "idle"
    /\ caller' = "main"
    /\ demo' = d
    /\ key' = IF d \in MapDemos THEN MainKey ELSE 0
    /\ pc' = Entry(d)
    /\ UNCHANGED <<Env, Locals, Report>>

(* another caller of one of the pub fns *)
ApiCallFile(d) ==
    /\ pc = "idle"
    /\ caller' = "api"
    /\ demo' = d
    /\ key' = 0
    /\ pc' = Entry(d)
    /\ UNCHANGED <<Env, Locals, Report>>

ApiCallMap(d, k) ==
    /\ pc = "idle"
    /\ caller' = "api"
    /\ demo' = d
    /\ key' = k
    /\ pc' = Entry(d)
    /\ UNCHANGED <<Env, Locals, Report>>

(* the read with unwrap_or_default in place of `?`: a failed read goes on  *)
(* to the parse with an empty string                                       *)
OF1_ReadGoesOn ==
    /\ pc = "of1_read"
    /\ LET r == ReadToString(file1)
       IN  /\ executed' = Append(executed, "read")
           /\ data' = IF r.tag = "Err" THEN <<>> ELSE r.val
           /\ pc' = "of1_parse"
           /\ UNCHANGED <<raised, result>>
    /\ UNCHANGED <<caller, demo, key, Env, map, openRes, builderEvals, Report>>

(* let data = fs::read_to_string(filename)?; *)
OF1_Read ==
    /\ pc = "of1_read"
    /\ LET r == ReadToString(file1)
       IN  /\ executed' = Append(executed, "read")
           /\ IF r.tag = "Err"
              THEN /\ raised' = r.err
                   /\ result' = Err(IntoAnyhow(r.err))
                   /\ pc' = "returned"
                   /\ data' = data
              ELSE /\ data' = r.val
                   /\ pc' = "of1_parse"
                   /\ UNCHANGED <<raised, result>>
    /\ UNCHANGED <<caller, demo, key, Env, map, openRes, builderEvals, Report>>

(* let n: u64 = data.parse()?; Ok(n) *)
OF1_Parse ==
    /\ pc = "of1_parse"
    /\ LET r == ParseU64(data)
       IN  /\ executed' = Append(executed, "parse")
           /\ IF r.tag = "Err"
              THEN /\ raised' = r.err
                   /\ result' = Err(IntoAnyhow(r.err))
              ELSE /\ result' = Ok(r.val)
                   /\ raised' = raised
    /\ pc' = "returned"
    /\ UNCHANGED <<caller, demo, key, Env, map, data, openRes, builderEvals, Report>>

(* File::open(filename) *)
OF2_Open ==
    /\ pc = "of2_open"
    /\ openRes' = FileOpen(file2)
    /\ executed' = Append(executed, "open")
    /\ pc' = "of2_context"
    /\ UNCHANGED <<caller, demo, key, Env, map, data, raised, builderEvals, result, Report>>

(* .with_context(|| format!("failed to open {:?}", filename))?; *)
OF2_Context ==
    /\ pc = "of2_context"
    /\ LET wc == WithContext(openRes, "failed to open " \o DebugStr(FileName2))
       IN  /\ builderEvals' = builderEvals + wc.evals
           /\ executed' = Append(executed, "with_context")
           /\ IF wc.res.tag = "Err"
              THEN /\ raised' = wc.res.err
                   /\ result' = Err(IntoAnyhow(wc.res.err))
                   /\ pc' = "returned"
              ELSE /\ pc' = "of2_ok"
                   /\ UNCHANGED <<raised, result>>
    /\ UNCHANGED <<caller, demo, key, Env, map, data, openRes, Report>>

(* Ok(()) *)
OF2_Ok ==
    /\ pc = "of2_ok"
    /\ result' = Ok(Unit)
    /\ pc' = "returned"
    /\ UNCHANGED <<caller, demo, key, Env, map, data, openRes, raised, executed,
                   builderEvals, Report>>

Finish(o) ==
    /\ result' = o.res
    /\ map' = o.map
    /\ executed' = o.steps
    /\ raised' = o.raised
    /\ pc' = "returned"
    /\ UNCHANGED <<caller, demo, key, Env, data, openRes, builderEvals, Report>>

AM1_Run == pc = "access_map_1" /\ Finish(AccessMap1(key))

AM2_Run == pc = "access_map_2" /\ Finish(AccessMap2(key))

AM3_Run == pc = "access_map_3" /\ Finish(AccessMap3(key))

(* the call returned to a caller other than main, which may call again *)
ApiReturn ==
    /\ pc = "returned"
    /\ caller = "api"
    /\ pc' = "idle"
    /\ caller' = "none"
    /\ demo' = "none"
    /\ key' = 0
    /\ map' = EmptyMap
    /\ data' = <<>>
    /\ openRes' = NoResult
    /\ raised' = NoErr
    /\ executed' = <<>>
    /\ builderEvals' = 0
    /\ result' = NoResult
    /\ UNCHANGED <<Env, Report>>

(* main with the println! ahead of the `?` *)
MainPropagateAfterNotice ==
    /\ pc = "returned"
    /\ caller = "main"
    /\ result.tag = "Err"
    /\ stdout' = Append(stdout, "Success!")
    /\ stderr' = Render(IntoAnyhow(result.err))
    /\ exitCode' = "failure"
    /\ pc' = "exited"
    /\ UNCHANGED <<caller, demo, key, Env, Locals>>

(* the `?` of main on a failed call: main returns the error, the runtime   *)
(* prints it and the process exits with a failure status                  *)
MainPropagate ==
    /\ pc = "returned"
    /\ caller = "main"
    /\ result.tag = "Err"
    /\ stderr' = Render(IntoAnyhow(result.err))
    /\ exitCode' = "failure"
    /\ pc' = "exited"
    /\ UNCHANGED <<caller, demo, key, Env, Locals, stdout>>

(* println!("Success!"); *)
MainPrintln ==
    /\ pc = "returned"
    /\ caller = "main"
    /\ result.tag = "Ok"
    /\ stdout' = Append(stdout, "Success!")
    /\ pc' = "main_ok"
    /\ UNCHANGED <<caller, demo, key, Env, Locals, stderr, exitCode>>

(* Ok(()) of main *)
MainOk ==
    /\ pc = "main_ok"
    /\ exitCode' = "success"
    /\ pc' = "exited"
    /\ UNCHANGED <<caller, demo, key, Env, Locals, stdout, stderr>>

Next ==
    \/ \E d \in Demos : MainCall(d)
    \/ \E d \in Demos \ MapDemos : ApiCallFile(d)
    \/ \E d \in MapDemos, k \in Keys : ApiCallMap(d, k)
    \/ OF1_Read
    \/ OF1_Parse
    \/ OF2_Open
    \/ OF2_Context
    \/ OF2_Ok
    \/ AM1_Run
    \/ AM2_Run
    \/ AM3_Run
    \/ ApiReturn
    \/ MainPropagate
    \/ MainPrintln
    \/ MainOk

Spec == Init /\ [][Next]_vars

TypeOK ==
    /\ pc \in {"idle", "of1_read", "of1_parse", "of2_open", "of2_context", "of2_ok",
               "access_map_1", "access_map_2", "access_map_3", "returned", "main_ok",
               "exited"}
    /\ caller \in {"none", "main", "api"}
    /\ demo \in Demos \cup {"none"}
    /\ key \in Keys
    /\ result.tag \in {"none", "Ok", "Err"}
    /\ exitCode \in {"running", "success", "failure"}

----------------------------------------------------------------------------
(* Properties *)

Done(d) == demo = d /\ result.tag # "none"

Present == key \in DOMAIN map

Steps == {executed[i] : i \in 1 .. Len(executed)}

(* the absence failure of each lookup demo *)
Absence(d) ==
    CASE d = "access_map_1" -> Err(Opaque(<<"key lookup failure">>))
      [] d = "access_map_2" -> Err(LookupFailure)
      [] OTHER -> Err(IdLookupFailure)

(* C1: access_map_3 works on the table {41: 76, 42: 77}; key 42 returns    *)
(* Ok(77), key 41 returns InvalidNumber(76), every other key returns       *)
(* LookupFailure, and no success value other than 77 is returned.          *)
C1_AccessMap3Outcomes ==
    Done("access_map_3") =>
        /\ DOMAIN map = {41, 42} /\ map[41] = 76 /\ map[42] = 77
        /\ key = 42 => result = Ok(77)
        /\ key = 41 => result = Err(IdInvalidNumber(76))
        /\ key \notin {41, 42} => result = Err(IdLookupFailure)
        /\ result.tag = "Ok" => result.val = 77

C1_Witness ==
    /\ Done("access_map_3") /\ key = 99 /\ result = Err(IdLookupFailure)

(* C2: for a key absent from its table, each of access_map_1,              *)
(* access_map_2 and access_map_3 returns its own absence failure and no    *)
(* success value.                                                          *)
C2_AbsentKeyFails ==
    \A d \in MapDemos :
        (Done(d) /\ ~Present) => result = Absence(d) /\ result.tag = "Err"

C2_Witness ==
    /\ Done("access_map_2") /\ ~Present /\ key = 7
    /\ result.tag = "Err" /\ Display(result.err) = "key lookup failure"

(* C3: for a key whose value v is in the table with v % 7 # 0,             *)
(* access_map_1 and access_map_3 return an invalid-value failure, and the  *)
(* InvalidNumber of access_map_3 carries exactly v.                        *)
C3_InvalidValueFails ==
    \A d \in {"access_map_1", "access_map_3"} :
        (Done(d) /\ Present /\ map[key] % 7 # 0) =>
            /\ result.tag = "Err"
            /\ d = "access_map_1" => result.err = Opaque(<<"not divisible by 7">>)
            /\ d = "access_map_3" =>
                   /\ result.err.rep = "IdNumberError"
                   /\ result.err.variant = "InvalidNumber"
                   /\ result.err.payload = map[key]

C3_Witness ==
    /\ Done("access_map_3") /\ Present /\ map[key] = 76
    /\ result.err.variant = "InvalidNumber" /\ result.err.payload = 76

(* C4: for a key whose value v is in the table with v % 7 = 0, all three   *)
(* lookup demos return Ok(v) and no failure.                               *)
C4_ValidValueSucceeds ==
    \A d \in MapDemos :
        (Done(d) /\ Present /\ map[key] % 7 = 0) =>
            result.tag = "Ok" /\ result.val = map[key] /\ result.err = NoErr

C4_Witness ==
    /\ Done("access_map_3") /\ Present /\ map[key] = 77 /\ result.tag = "Ok"
    /\ result.val = 77

(* C5: in open_file_2 the closure given to with_context runs at most once  *)
(* and only after File::open failed; when File::open succeeded it never    *)
(* runs and the call returns Ok(()) with no error chain.                   *)
C5_LazyContext ==
    demo = "open_file_2" =>
        /\ builderEvals <= 1
        /\ builderEvals = 1 => openRes.tag = "Err"
        /\ openRes.tag = "Ok" => builderEvals = 0
        /\ (result.tag # "none" /\ openRes.tag = "Ok") =>
               result.tag = "Ok" /\ result.err = NoErr /\ raised = NoErr

C5_Witness ==
    /\ Done("open_file_2") /\ openRes.tag = "Ok" /\ "with_context" \in Steps
    /\ builderEvals = 0 /\ result.tag = "Ok"

(* C6: a failed open_file_2 returns a chain of exactly two links, the      *)
(* message "failed to open ..." in front and the text of the open failure  *)
(* behind it, and main's report shows the message on its first line and    *)
(* the failure's unaltered text under "Caused by:".                        *)
C6_ContextChain ==
    (Done("open_file_2") /\ result.tag = "Err") =>
        LET underlying == IF file2 = "missing"
                          THEN "No such file or directory (os error 2)"
                          ELSE "Permission denied (os error 13)"
        IN  /\ result.err.rep = "anyhow"
            /\ Len(result.err.chain) = 2
            /\ result.err.chain[1] = "failed to open \"nonexistent_logfile\""
            /\ result.err.chain[2] = underlying
            /\ Display(openRes.err) = underlying
            /\ pc = "exited" =>
                   stderr = <<"Error: failed to open \"nonexistent_logfile\"",
                              "", "Caused by:", "    " \o underlying>>

C6_Witness ==
    /\ Done("open_file_2") /\ result.tag = "Err" /\ pc = "exited"
    /\ file2 = "missing" /\ Len(stderr) = 4 /\ stderr[3] = "Caused by:"

(* C7: a run of main ends in one of two ways: the demo returned Ok, the    *)
(* notice "Success!" was printed and main completed with success; or the   *)
(* demo returned Err, main completed with that failure and the notice was  *)
(* never printed.                                                          *)
C7_MainOutcome ==
    caller = "main" =>
        /\ stdout # <<>> => result.tag = "Ok"
        /\ exitCode # "running" <=> pc = "exited"
        /\ pc = "exited" =>
               \/ /\ result.tag = "Ok"
                  /\ stdout = <<"Success!">>
                  /\ stderr = <<>>
                  /\ exitCode = "success"
               \/ /\ result.tag = "Err"
                  /\ stdout = <<>>
                  /\ stderr # <<>>
                  /\ stderr[1] = "Error: " \o Display(result.err)
                  /\ exitCode = "failure"

C7_Witness ==
    /\ caller = "main" /\ pc = "exited" /\ result.tag = "Ok"
    /\ stdout = <<"Success!">> /\ exitCode = "success"

(* C8: the first failing step ends the call and is the failure returned:   *)
(* an absent key in access_map_1 and access_map_3 returns the absence      *)
(* failure with the validation not executed; a failed read in open_file_1  *)
(* returns with the parse not attempted; a failure of access_map_2 and     *)
(* access_map_3 is exactly the value constructed where it arose.           *)
C8_FirstFailureReturns ==
    /\ \A d \in {"access_map_1", "access_map_3"} :
           (Done(d) /\ ~Present) =>
               /\ executed = <<"lookup">>
               /\ result = Absence(d)
               /\ result.err.variant # "InvalidNumber"
               /\ result.err.chain # <<"not divisible by 7">>
    /\ (demo = "open_file_1" /\ file1.kind # "text") =>
           /\ pc # "of1_parse"
           /\ "parse" \notin Steps
           /\ result.tag # "none" => result.tag = "Err" /\ executed = <<"read">>
    /\ (Done("open_file_2") /\ openRes.tag = "Err") => result.tag = "Err"
    /\ \A d \in {"access_map_2", "access_map_3"} :
           (Done(d) /\ result.tag = "Err") =>
               /\ result.err = raised
               /\ raised.rep = (IF d = "access_map_2" THEN "LookupFailure"
                                ELSE "IdNumberError")

C8_Witness ==
    /\ Done("open_file_1") /\ file1.kind = "missing" /\ executed = <<"read">>
    /\ result.tag = "Err"

C10_EmptyTable ==
    \A d \in {"access_map_1", "access_map_2"} :
        Done(d) =>
            /\ DOMAIN map = {}
            /\ result.tag = "Err"
            /\ Display(result.err) = "key lookup failure"
            /\ result = Absence(d)
            /\ "validate" \notin Steps

C10_Witness ==
    /\ Done("access_map_1") /\ caller = "main" /\ pc = "exited"
    /\ stderr = <<"Error: key lookup failure">>

====
